---- MODULE Spec2Model ----
(***************************************************************************)
(* Model of the PixelFly backend: the LangGraph workflow of               *)
(* services/ai_orchestrator.py, the enhancement service of                 *)
(* services/photo_enhancer.py, the watermark service of                    *)
(* services/watermark_service.py and the HTTP handlers of app.py,          *)
(* simple_server.py and api/index.py.                                      *)
(*                                                                         *)
(* One behaviour is one client request: the first step is the entry point  *)
(* being called, the following steps are the agents of the workflow and    *)
(* the final step is the entry point returning.                            *)
(***************************************************************************)
EXTENDS Integers, Sequences, FiniteSets, TLC

VARIABLES
    gemini_available,   \* PhotoEnhancementService.gemini_available
    entry,              \* the entry point that was called
    req,                \* the arguments of the call
    state,              \* AgentState of the current workflow run
    node,               \* the node of the workflow graph that runs next
    epc,                \* position inside _enhancement_agent
    pending,            \* image held while generate_content is outstanding
    agents_run,         \* agents executed in the current run, in order
    statuses,           \* values processing_status took in the current run
    failed,             \* the agent that recorded error_message, if any
    enhancerCall,       \* arguments PhotoEnhancementService.enhance_photo_async got
    queue,              \* image_urls still to be processed by a bulk call
    runLog,             \* per finished bulk run: did it end without error
    results,            \* the result list a bulk call accumulates
    runsStarted,        \* number of watermark runs started by the request
    outcome,            \* what the service call gave its caller
    response,           \* the HTTP response of the handler
    dec,                \* one call of _analyze_image_with_gemini
    exe,                \* one call of an enhancement executor
    plc,                \* one call of a watermark placement function
    sty,                \* one call of apply_watermark_style
    wmk,                \* one image on its way through an enhance or watermark path
    crt                 \* one call of the certificate and flyer services

vars == << gemini_available, entry, req, state, node, epc, pending, agents_run,
           statuses, failed, enhancerCall, queue, runLog, results,
           runsStarted, outcome, response, dec, exe, plc, sty, wmk, crt >>

\* the variables of the calls checked in isolation
pure == << dec, exe, plc, sty, wmk, crt >>

\* the variables of a client request
request == << entry, req, state, node, epc, pending, agents_run, statuses,
             failed, enhancerCall, queue, runLog, results, runsStarted,
             outcome, response >>

----------------------------------------------------------------------------
(* Bounds *)

\* longest image list a batch request carries
MaxBatch == 4

\* images of one flyer request
MaxFlyerImages == 5

(* Program constants *)

\* "Maximum 3 images allowed"
MaxImages == 3

----------------------------------------------------------------------------
(* Values *)

\* Images: an RGB image, a grayscale (mode L) image, an RGBA image and bytes
\* that are no image (or a URL that cannot be fetched).
ImageIds == {"rgb", "gray", "rgba", "bad"}

Decodable(i) == i # "bad"

Mode(i) == CASE i = "rgb"  -> "RGB"
             [] i = "gray" -> "L"
             [] i = "rgba" -> "RGBA"
             [] OTHER      -> "-"

\* Python values: None, a key that is absent from a dict, the empty string,
\* a URL, a base64 payload, a data URL built from a base64 payload, and the
\* outputs of the services.
Val(k, i) == [kind |-> k, img |-> i]
NoneV   == Val("none", "-")
Absent  == Val("absent", "-")
EmptyS  == Val("empty", "-")
Url(i)  == Val("url", i)
B64(i)  == Val("b64", i)

\* Python truthiness of an optional string
Truthy(v) == v.kind \notin {"none", "absent", "empty"}

\* dict.get(key): an absent key reads as None
Get(v) == IF v = Absent THEN NoneV ELSE v

EnhancementTypes ==
    {"auto", "portrait", "landscape", "food", "product", "low_light", "vintage"}

ReturnFormats == {"base64", "url"}

TaskTypes == {"enhancement", "watermarking", "", "resize"}

NoCall == [called |-> FALSE, image_url |-> NoneV, image_base64 |-> NoneV,
           enhancement_type |-> "-"]

NoReq == [image_url |-> Absent, image_base64 |-> Absent,
          enhancement_type |-> "-", return_format |-> "-", images |-> << >>]

NoOutcome == [kind |-> "none", error |-> "", data |-> << >>, count |-> 0]

NoResponse == [code |-> 0, success |-> FALSE, images |-> << >>,
               processed_count |-> 0]

EmptyResultData ==
    [return_format |-> "base64", image_base64 |-> Absent,
     has_analysis |-> FALSE, image_type |-> "-",
     enhanced_base64 |-> Absent, enhanced_url |-> Absent,
     enhancements_applied |-> << >>,
     watermarked_base64 |-> Absent, watermarked_url |-> Absent,
     has_quality_check |-> FALSE, final_status |-> "", has_time |-> FALSE]

\* no call made yet
NoDec == [pc |-> "idle"]
NoExe == [pc |-> "idle"]
NoPlc == [pc |-> "idle"]

NoSty == [pc |-> "idle"]

NoWmk == [pc |-> "idle"]

NoCrt == [pc |-> "idle"]

NoState == [image_url |-> NoneV, task_type |-> "-",
            processing_status |-> "-", error_message |-> "",
            result_data |-> EmptyResultData]

----------------------------------------------------------------------------
(* services/photo_enhancer.py *)

\* Outcomes of self.gemini_model.generate_content once it answers
GeminiOutcomes == {"well_formed", "malformed", "raises"}

\* recommended_enhancements lists a well-formed advisory answer carries
AdvisoryPlans == { << >>, <<"sharpening", "color_balance">>,
                   <<"sharpening", "noise_reduction", "sharpening">> }

FallbackPlan == <<"sharpening", "contrast_enhancement", "color_balance">>

\* if image_base64: decode; elif image_url: download; else: ValueError
ObtainImage(image_url, image_base64) ==
    IF Truthy(image_base64)
    THEN IF Decodable(image_base64.img)
         THEN [ok |-> TRUE, img |-> image_base64.img, err |-> ""]
         ELSE [ok |-> FALSE, img |-> "-", err |-> "cannot identify image file"]
    ELSE IF Truthy(image_url)
    THEN IF image_url.kind = "url" /\ Decodable(image_url.img)
         THEN [ok |-> TRUE, img |-> image_url.img, err |-> ""]
         ELSE [ok |-> FALSE, img |-> "-", err |-> "download failed"]
    ELSE [ok |-> FALSE, img |-> "-",
          err |-> "Either image_url or image_base64 must be provided"]

\* cv2.cvtColor(img_array, cv2.COLOR_RGB2GRAY) needs a 3 or 4 channel array:
\* the array of a mode L image is two-dimensional and the call raises.
detect_quality_issues_raises(img) == Mode(img) \notin {"RGB", "RGBA"}

\* _fallback_analysis calls _detect_quality_issues outside any try block
fallback_analysis(img) ==
    IF detect_quality_issues_raises(img)
    THEN [raised |-> TRUE, err |-> "cvtColor: invalid number of channels",
          plan |-> << >>, gemini |-> FALSE, confidence |-> 0]
    ELSE [raised |-> FALSE, err |-> "", plan |-> FallbackPlan,
          gemini |-> FALSE, confidence |-> 60]

\* generate_content is reached when the service is configured and
\* image.save(format='JPEG') accepted the image (it rejects mode RGBA, which
\* sends control to the outer except and from there to the fallback).
GeminiCallMade(img) == gemini_available /\ Mode(img) # "RGBA"

\* The part of _analyze_image_with_gemini after generate_content answered.
\* The defaults of the dict.get calls are evaluated eagerly, so
\* _detect_quality_issues runs (and may raise into the inner except) even for
\* a complete answer.  Every failure falls through to _fallback_analysis; if
\* that raises, the outer except calls it once more and the second exception
\* leaves the method.
analysis_after_response(img, gemini_outcome, plan) ==
    IF gemini_outcome = "well_formed" /\ ~ detect_quality_issues_raises(img)
    THEN [raised |-> FALSE, err |-> "", plan |-> plan, gemini |-> TRUE,
          confidence |-> 85]
    ELSE fallback_analysis(img)

\* _apply_enhancements: the enhanced copy, or the original image when any
\* operation raised.
apply_enhancements(img, opFails) ==
    IF opFails THEN Val("original", img) ELSE Val("enhanced", img)

\* The rest of enhance_photo_async once the analysis is known.
enhance_result(analysis, img, opFails, return_format) ==
    IF analysis.raised
    THEN [raised |-> TRUE, err |-> analysis.err,
          enhanced_base64 |-> Absent, enhanced_url |-> Absent,
          enhancements_applied |-> << >>]
    ELSE IF return_format = "base64"
    THEN [raised |-> FALSE, err |-> "",
          enhanced_base64 |-> apply_enhancements(img, opFails),
          enhanced_url |-> Absent,
          enhancements_applied |-> analysis.plan]
    ELSE [raised |-> FALSE, err |-> "",
          enhanced_base64 |-> Absent,
          enhanced_url |-> Val("storage_url", "-"),
          enhancements_applied |-> analysis.plan]

----------------------------------------------------------------------------
(* services/photo_enhancer.py: the decision engine in detail *)

\* blur_score < 100
BlurThreshold == 100
\* contrast < 50
LowContrastThreshold == 50
\* noise_score > 80
NoiseThreshold == 80
\* brightness < 80
LowLightThreshold == 80
\* brightness > 200
OverexposedThreshold == 200

\* Metric values on both sides of each threshold and on the thresholds.
\* img_array.std() and np.std(img_array) are one statistic, named std here.
BlurScores == {50, 150}
StdValues == {30, 60, 90}
BrightnessValues == {50, 80, 128, 200, 230}

Metrics == [blur : BlurScores, std : StdValues, brightness : BrightnessValues]

\* _detect_quality_issues for an image whose array has 3 or 4 channels
detect_quality_issues(m) ==
    (IF m.blur < BlurThreshold THEN << "blur" >> ELSE << >>)
    \o (IF m.std < LowContrastThreshold THEN << "low_contrast" >> ELSE << >>)
    \o (IF m.std > NoiseThreshold THEN << "noise" >> ELSE << >>)
    \o (IF m.brightness < LowLightThreshold THEN << "low_light" >>
        ELSE IF m.brightness > OverexposedThreshold THEN << "overexposed" >>
        ELSE << >>)

SeqRange(xs) == { xs[k] : k \in 1..Len(xs) }

\* the list _get_recommended_enhancements builds before list(set(...))
recommended_before_set(m, et) ==
    LET issues == SeqRange(detect_quality_issues(m))
    IN (IF "blur" \in issues THEN << "sharpening" >> ELSE << >>)
       \o (IF "low_contrast" \in issues THEN << "contrast_enhancement" >> ELSE << >>)
       \o (IF "noise" \in issues THEN << "noise_reduction" >> ELSE << >>)
       \o (IF "low_light" \in issues THEN << "brightness_adjustment" >> ELSE << >>)
       \o (IF et = "portrait" THEN << "skin_smoothing", "eye_enhancement" >>
           ELSE IF et = "landscape" THEN << "color_saturation", "sky_enhancement" >>
           ELSE IF et = "food" THEN << "color_warmth", "texture_enhancement" >>
           ELSE << >>)
       \o << "color_balance", "detail_enhancement" >>

RECURSIVE Perms(_)
\* the orders in which a set can be listed
Perms(S) == IF S = {} THEN { << >> }
            ELSE UNION { { << x >> \o q : q \in Perms(S \ {x}) } : x \in S }

\* _get_recommended_enhancements: list(set(enhancements)) lists the distinct
\* names in the iteration order of a set of strings, which is not fixed.
get_recommended_enhancements(m, et) == Perms(SeqRange(recommended_before_set(m, et)))

\* _get_enhancement_parameters, in hundredths
get_enhancement_parameters ==
    [sharpness |-> 130, contrast |-> 120, brightness |-> 110,
     saturation |-> 115, noise_reduction |-> 80]

DecImages == {"rgb", "gray", "rgba"}

\* _analyze_image_with_gemini up to its return without the advisory service
\* or up to generate_content
analyze_image_with_gemini ==
    /\ dec.pc = "idle"
    /\ \E i \in DecImages, m \in Metrics, et \in EnhancementTypes :
          LET base == [img |-> i, m |-> m, et |-> et,
                       params |-> get_enhancement_parameters]
              fb == fallback_analysis(i)
          IN dec' = IF GeminiCallMade(i)
                    THEN base @@ [pc |-> "generate_content", source |-> "-",
                                  result |-> fb]
                    ELSE base @@ [pc |-> IF fb.raised THEN "raised" ELSE "returned",
                                  source |-> "fallback", result |-> fb]
    /\ UNCHANGED << gemini_available, request, exe, plc, sty, wmk, crt >>

\* generate_content answers: the answer is unusable, or it is well formed
\* and carries recommended_enhancements, or it is well formed without that
\* key and the default of dict.get, _get_recommended_enhancements, is used.
analyze_generate_content_returns ==
    /\ dec.pc = "generate_content"
    /\ \E src \in {"unusable", "advisory", "rule_table"} :
          \E o \in IF src = "unusable" THEN GeminiOutcomes \ {"well_formed"}
                   ELSE {"well_formed"},
             plan \in CASE src = "unusable"   -> { << >> }
                        [] src = "advisory"   -> AdvisoryPlans
                        [] src = "rule_table" ->
                             get_recommended_enhancements(dec.m, dec.et) :
             LET res == analysis_after_response(dec.img, o, plan)
             IN dec' = [dec EXCEPT
                          !.pc = IF res.raised THEN "raised" ELSE "returned",
                          !.source = IF res.gemini THEN src ELSE "fallback",
                          !.result = res]
    /\ UNCHANGED << gemini_available, request, exe, plc, sty, wmk, crt >>

\* api/index.py enhance_image_smart: its brightness decision, as the factor
\* (in hundredths) of the brightness step it applies, 100 when it applies none
enhance_image_smart_brightness(m) ==
    IF m.brightness < 100 THEN 120
    ELSE IF m.brightness > 200 THEN 90
    ELSE 100

\* api/index.py enhance_image_smart for a decodable image
enhance_image_smart ==
    /\ dec.pc = "idle"
    /\ \E i \in DecImages, m \in Metrics :
          dec' = [pc |-> "smart_done", img |-> i, m |-> m, et |-> "-",
                  params |-> [get_enhancement_parameters EXCEPT
                                 !.brightness = enhance_image_smart_brightness(m)],
                  source |-> "enhance_image_smart",
                  result |-> [raised |-> FALSE, err |-> "",
                              plan |-> (IF m.std < 50 THEN << "contrast_enhancement" >>
                                        ELSE << >>)
                                       \o (IF enhance_image_smart_brightness(m) # 100
                                           THEN << "brightness_adjustment" >>
                                           ELSE << >>)
                                       \o << "color_saturation", "sharpening" >>,
                              gemini |-> FALSE, confidence |-> 0]]
    /\ UNCHANGED << gemini_available, request, exe, plc, sty, wmk, crt >>

----------------------------------------------------------------------------
(* services/photo_enhancer.py: the executor in detail *)

\* The operations of _apply_enhancements in the order of its if statements
ExecOps == << "sharpening", "contrast_enhancement", "brightness_adjustment",
              "color_saturation", "noise_reduction", "color_balance",
              "detail_enhancement" >>

\* Names a plan may hold: the seven above and one the executor ignores
PlanNames == SeqRange(ExecOps) \cup {"skin_smoothing"}

\* Pixels are the source's raw pixels followed by the operations applied
RawPixels == << "raw" >>

RECURSIVE run_ops(_, _, _, _)
\* The try block of _apply_enhancements from the operation Head(ops) on:
\* each operation named by the plan yields a new image; one that raises
\* leaves the try block, except that _apply_color_balance catches its own
\* exception and returns its argument.
run_ops(ops, plan, failing, px) ==
    IF ops = << >> THEN [raised |-> FALSE, px |-> px]
    ELSE LET op == Head(ops)
         IN IF op \notin plan THEN run_ops(Tail(ops), plan, failing, px)
            ELSE IF op = failing
            THEN IF op = "color_balance"
                 THEN run_ops(Tail(ops), plan, failing, px)
                 ELSE [raised |-> TRUE, px |-> px]
            ELSE run_ops(Tail(ops), plan, failing, Append(px, op))

\* _apply_enhancements working on the source object itself
apply_enhancements_in_place(heap, src, plan, failing) ==
    LET r == run_ops(ExecOps, plan, failing, heap[src])
    IN [heap |-> [heap EXCEPT ![src] = r.px], out |-> src]

\* _apply_enhancements on a heap of image objects: the operations work on
\* enhanced_image = image.copy() and each returns a new object; the except
\* branch returns the source object.
apply_enhancements_on(heap, src, plan, failing) ==
    LET r == run_ops(ExecOps, plan, failing, heap[src])
    IN IF r.raised
       THEN [heap |-> Append(heap, heap[src]), out |-> src]
       ELSE [heap |-> Append(heap, r.px), out |-> Len(heap) + 1]

\* one call of _apply_enhancements
PhotoEnhancementService_apply_enhancements ==
    /\ exe.pc = "idle"
    /\ \E plan \in SUBSET PlanNames, failing \in {"none"} \cup SeqRange(ExecOps) :
          LET r == apply_enhancements_on(<< RawPixels >>, 1, plan, failing)
          IN exe' = [pc |-> "done", fn |-> "_apply_enhancements", src |-> 1,
                     src_px |-> RawPixels, plan |-> plan, failing |-> failing,
                     heap |-> r.heap, out |-> r.out]
    /\ UNCHANGED << gemini_available, request, dec, plc, sty, wmk, crt >>

\* the steps of simple_server.py enhance_image_simple, all unconditional:
\* Contrast, Brightness, Color, Sharpness, SMOOTH_MORE, UnsharpMask
SimpleOps == << "contrast_enhancement", "brightness_adjustment",
                "color_saturation", "sharpening", "noise_reduction",
                "sharpening" >>

\* one call of enhance_image_simple on a decodable image; any exception
\* returns the input
simple_server_enhance_image_simple ==
    /\ exe.pc = "idle"
    /\ \E failing \in {"none"} \cup SeqRange(SimpleOps) :
          exe' = [pc |-> "done", fn |-> "enhance_image_simple", src |-> 1,
                  src_px |-> RawPixels, plan |-> SeqRange(SimpleOps),
                  failing |-> failing,
                  heap |-> IF failing = "none"
                           THEN << RawPixels, RawPixels \o SimpleOps >>
                           ELSE << RawPixels >>,
                  out |-> IF failing = "none" THEN 2 ELSE 1]
    /\ UNCHANGED << gemini_available, request, dec, plc, sty, wmk, crt >>

----------------------------------------------------------------------------
(* simple_server.py and api/index.py: watermark placement *)

\* Image sizes (w, h >= 1) and the variances numpy reports for the zones
Widths == {1, 100, 200, 201, 300}

Heights == {1, 100, 101, 200}

VarianceValues == {0, 1, 2}

ZoneVariances == [1..5 -> VarianceValues]

PositionNames == {"smart_adaptive", "content_aware", "edge_detection",
                  "bottom_right", "bottom_left", "top_right", "top_left",
                  "center", "diagonal"}

\* rectangles are << x1, y1, x2, y2 >>; Python's // on non-negative ints
zones(w, h) ==
    << << w - 200, h - 100, w - 20, h - 20 >>,
       << 20, h - 100, 200, h - 20 >>,
       << w - 200, 20, w - 20, 100 >>,
       << 20, 20, 200, 100 >>,
       << (w \div 2) - 100, (h \div 2) - 50, (w \div 2) + 100, (h \div 2) + 50 >> >>

\* the test that guards the body of the loop over the zones
zone_considered(z, w, h) == z[3] < w /\ z[4] < h /\ z[1] >= 0 /\ z[2] >= 0

RECURSIVE best_zone_scan(_, _, _, _, _)
\* the loop of smart_adaptive_placement from zone k on; best = 0 stands for
\* min_variance = inf, otherwise min_variance = var[best]
best_zone_scan(k, best, var, w, h) ==
    IF k > 5 THEN best
    ELSE IF zone_considered(zones(w, h)[k], w, h) /\ (best = 0 \/ var[k] < var[best])
         THEN best_zone_scan(k + 1, k, var, w, h)
         ELSE best_zone_scan(k + 1, best, var, w, h)

smart_adaptive_placement(w, h, var) ==
    LET best == best_zone_scan(1, 0, var, w, h)
    IN zones(w, h)[IF best = 0 THEN 1 ELSE best]

content_aware_placement(w, h) == << w - 180, h - 80, w - 20, h - 20 >>

edge_detection_placement == << 20, 20, 200, 80 >>

traditional_placement(w, h, position) ==
    CASE position = "bottom_right" -> << w - 180, h - 80, w - 20, h - 20 >>
      [] position = "bottom_left" -> << 20, h - 80, 200, h - 20 >>
      [] position = "top_right" -> << w - 180, 20, w - 20, 80 >>
      [] position = "top_left" -> << 20, 20, 200, 80 >>
      [] position = "center" ->
            << (w \div 2) - 90, (h \div 2) - 40, (w \div 2) + 90, (h \div 2) + 40 >>
      [] OTHER -> << w - 180, h - 80, w - 20, h - 20 >>

\* the pixel content reaches the three analysing modes only
PlacementInputs(position) ==
    IF position \in {"smart_adaptive", "content_aware", "edge_detection"}
    THEN ZoneVariances ELSE { [k \in 1..5 |-> 0] }

\* watermark_pos of simple_server.py add_revolutionary_watermark
simple_server_watermark_pos ==
    /\ plc.pc = "idle"
    /\ \E w \in Widths, h \in Heights, position \in PositionNames :
          \E var \in PlacementInputs(position) :
             plc' = [pc |-> "done", fn |-> "simple_server", w |-> w, h |-> h,
                     position |-> position, var |-> var,
                     watermark_pos |->
                        CASE position = "smart_adaptive" -> smart_adaptive_placement(w, h, var)
                          [] position = "content_aware" -> content_aware_placement(w, h)
                          [] position = "edge_detection" -> edge_detection_placement
                          [] OTHER -> traditional_placement(w, h, position)]
    /\ UNCHANGED << gemini_available, request, dec, exe, sty, wmk, crt >>

\* watermark_pos of api/index.py add_revolutionary_watermark
api_watermark_pos ==
    /\ plc.pc = "idle"
    /\ \E w \in Widths, h \in Heights, position \in PositionNames :
          \E var \in PlacementInputs(position) :
             plc' = [pc |-> "done", fn |-> "api", w |-> w, h |-> h,
                     position |-> position, var |-> var,
                     watermark_pos |->
                        IF position = "smart_adaptive"
                        THEN smart_adaptive_placement(w, h, var)
                        ELSE << w - 180, h - 80, w - 20, h - 20 >>]
    /\ UNCHANGED << gemini_available, request, dec, exe, sty, wmk, crt >>

----------------------------------------------------------------------------
(* simple_server.py and api/index.py: apply_watermark_style *)

Max(a, b) == IF a >= b THEN a ELSE b

Min(a, b) == IF a <= b THEN a ELSE b

\* target rectangles << x1, y1, x2, y2 >>: of a placement (160 or 180 wide),
\* narrow, empty and inverted ones
StyleRects ==
    { << x1, 20, x1 + dx, 20 + dy >> :
         x1 \in {0, 20}, dx \in {-10, 0, 5, 180}, dy \in {-10, 0, 60} }

\* len(text); the handlers pass the caller's text on unchecked, '' included
TextLengths == {0, 1, 12}

\* what draw.textbbox measures for the text
TextWidths == {6, 300}

TextHeights == {11, 90}

SizeNames == {"small", "medium", "large", "adaptive", "huge"}

StyleNames == {"modern_glass", "neon_glow", "vintage_stamp", "holographic",
               "artistic_brush", "minimal_clean"}

ColorNames == {"white", "red"}

\* opacity in hundredths
Opacities == {0, 1, 80}

White == << 255, 255, 255 >>

\* color_map.get(color.lower(), (255, 255, 255))
color_map(color) == IF color = "red" THEN << 255, 0, 0 >> ELSE White

\* alpha = int(255 * opacity)
alpha_of(opacity) == (255 * opacity) \div 100

\* font_size of simple_server.py without the final max(font_size, 12)
simple_font_size_no_minimum(rect, text_len, size) ==
    CASE size = "small" -> [raised |-> FALSE, font_size |-> 14]
      [] size = "medium" -> [raised |-> FALSE, font_size |-> 20]
      [] size = "large" -> [raised |-> FALSE, font_size |-> 28]
      [] size = "adaptive" ->
            IF text_len = 0 THEN [raised |-> TRUE, font_size |-> 0]
            ELSE [raised |-> FALSE,
                  font_size |->
                     Min(Min((rect[3] - rect[1]) \div text_len,
                             (rect[4] - rect[2]) \div 2), 24)]
      [] OTHER -> [raised |-> FALSE, font_size |-> 20]

\* font_size of simple_server.py; raised stands for the ZeroDivisionError of
\* available_width // len(text)
simple_font_size(rect, text_len, size) ==
    CASE size = "small" -> [raised |-> FALSE, font_size |-> 14]
      [] size = "medium" -> [raised |-> FALSE, font_size |-> 20]
      [] size = "large" -> [raised |-> FALSE, font_size |-> 28]
      [] size = "adaptive" ->
            IF text_len = 0 THEN [raised |-> TRUE, font_size |-> 0]
            ELSE [raised |-> FALSE,
                  font_size |->
                     Max(Min(Min((rect[3] - rect[1]) \div text_len,
                                 (rect[4] - rect[2]) \div 2), 24), 12)]
      [] OTHER -> [raised |-> FALSE, font_size |-> 20]

\* font_size of api/index.py
api_font_size(size) ==
    CASE size = "small" -> 14
      [] size = "medium" -> 20
      [] size = "large" -> 28
      [] OTHER -> 20

\* x1 + (x2 - x1 - text_width) // 2, for either axis
centered(lo, hi, extent) == lo + ((hi - lo - extent) \div 2)

\* max(x1, min(text_x, x2 - text_width)), for either axis
fit_within(lo, hi, extent, at) == Max(lo, Min(at, hi - extent))

\* one draw.text call: offset from the text origin, fill colour and alpha
Draw(dx, dy, rgb, a) == [dx |-> dx, dy |-> dy, rgb |-> rgb, alpha |-> a]

\* the eight draws of one glow ring, dx outer and dy inner over
\* [-offset, 0, offset] without (0, 0)
neon_ring(offset, rgb, a) ==
    << Draw(-offset, -offset, rgb, a), Draw(-offset, 0, rgb, a),
       Draw(-offset, offset, rgb, a), Draw(0, -offset, rgb, a),
       Draw(0, offset, rgb, a), Draw(offset, -offset, rgb, a),
       Draw(offset, 0, rgb, a), Draw(offset, offset, rgb, a) >>

\* glow_alpha growing with the ring's radius instead of shrinking
neon_glow_alpha_times_offset(alpha, offset) == (alpha * offset) \div 5

\* glow_alpha = alpha // (offset + 1)
neon_glow_alpha(alpha, offset) == alpha \div (offset + 1)

RECURSIVE neon_rings(_, _, _)
\* for offset in range(4, 0, -1), from this offset down
neon_rings(offset, rgb, alpha) ==
    IF offset = 0 THEN << >>
    ELSE neon_ring(offset, rgb, neon_glow_alpha(alpha, offset))
         \o neon_rings(offset - 1, rgb, alpha)

\* the draw.text calls of simple_server.py per style, in order
simple_style_draws(style, color, alpha) ==
    LET base_color == color_map(color)
    IN CASE style = "modern_glass" ->
              << Draw(2, 2, base_color, alpha \div 4),
                 Draw(1, 1, << 200, 200, 200 >>, alpha \div 2),
                 Draw(0, 0, base_color, alpha) >>
         [] style = "neon_glow" ->
              neon_rings(4, IF color = "white" THEN << 0, 255, 255 >> ELSE base_color, alpha)
              \o << Draw(0, 0, White, alpha) >>
         [] style = "vintage_stamp" ->
              << Draw(0, 0, IF color = "white" THEN << 139, 69, 19 >> ELSE base_color, alpha) >>
         [] style = "holographic" ->
              << Draw(-3, 0, << 255, 0, 0 >>, alpha \div 3),
                 Draw(-2, 0, << 255, 127, 0 >>, alpha \div 3),
                 Draw(-1, 0, << 255, 255, 0 >>, alpha \div 3),
                 Draw(0, 0, << 0, 255, 0 >>, alpha \div 3),
                 Draw(1, 0, << 0, 0, 255 >>, alpha \div 3),
                 Draw(2, 0, << 75, 0, 130 >>, alpha \div 3),
                 Draw(3, 0, << 148, 0, 211 >>, alpha \div 3),
                 Draw(0, 0, base_color, alpha) >>
         [] style = "artistic_brush" ->
              << Draw(-1, -1, base_color, alpha \div 2),
                 Draw(0, 0, base_color, alpha \div 3),
                 Draw(1, 1, base_color, alpha \div 4),
                 Draw(0, 0, base_color, alpha) >>
         [] OTHER -> << Draw(0, 0, base_color, alpha) >>

\* the draw.text calls of api/index.py per style
api_style_draws(style, color, alpha) ==
    LET base_color == color_map(color)
    IN IF style = "modern_glass"
       THEN << Draw(2, 2, base_color, alpha \div 3), Draw(0, 0, base_color, alpha) >>
       ELSE << Draw(0, 0, base_color, alpha) >>

\* one call of simple_server.py apply_watermark_style
simple_server_apply_watermark_style ==
    /\ sty.pc = "idle"
    /\ \E rect \in StyleRects, text_len \in TextLengths, size \in SizeNames,
          tw \in TextWidths, th \in TextHeights, style \in StyleNames,
          color \in ColorNames, opacity \in Opacities :
          LET fs == simple_font_size(rect, text_len, size)
              alpha == alpha_of(opacity)
          IN sty' = [pc |-> "done", fn |-> "simple_server", rect |-> rect,
                     text_len |-> text_len, size |-> size, style |-> style,
                     color |-> color, alpha |-> alpha,
                     text_width |-> tw, text_height |-> th,
                     raised |-> fs.raised, font_size |-> fs.font_size,
                     text_x |-> fit_within(rect[1], rect[3], tw,
                                           centered(rect[1], rect[3], tw)),
                     text_y |-> fit_within(rect[2], rect[4], th,
                                           centered(rect[2], rect[4], th)),
                     draws |-> IF fs.raised THEN << >>
                               ELSE simple_style_draws(style, color, alpha)]
    /\ UNCHANGED << gemini_available, request, dec, exe, plc, wmk, crt >>

\* one call of api/index.py apply_watermark_style
api_apply_watermark_style ==
    /\ sty.pc = "idle"
    /\ \E rect \in StyleRects, text_len \in TextLengths, size \in SizeNames,
          tw \in TextWidths, th \in TextHeights, style \in StyleNames,
          color \in ColorNames, opacity \in Opacities :
          LET alpha == alpha_of(opacity)
          IN sty' = [pc |-> "done", fn |-> "api", rect |-> rect,
                     text_len |-> text_len, size |-> size, style |-> style,
                     color |-> color, alpha |-> alpha,
                     text_width |-> tw, text_height |-> th,
                     raised |-> FALSE, font_size |-> api_font_size(size),
                     text_x |-> centered(rect[1], rect[3], tw),
                     text_y |-> centered(rect[2], rect[4], th),
                     draws |-> api_style_draws(style, color, alpha)]
    /\ UNCHANGED << gemini_available, request, dec, exe, plc, wmk, crt >>

----------------------------------------------------------------------------
(* The mode of an image along the enhance and watermark paths *)

\* what happens to the image at one point of a path, and its mode there
Stage(name, mode) == [stage |-> name, mode |-> mode]

\* one stage per operation of the plan that _apply_enhancements knows
OpStages(plan, mode) ==
    [k \in 1..Cardinality(SeqRange(plan) \cap SeqRange(ExecOps))
        |-> Stage("enhancement_op", mode)]

\* if image.mode != 'RGB': image = image.convert('RGB')
convert_rgb(mode) == "RGB"

\* PhotoEnhancementService.enhance_photo_async on a decodable image: the
\* image goes from Image.open to the analysis and to _apply_enhancements as
\* it was decoded; _image_to_base64 converts before image.save.
PhotoEnhancementService_enhance_photo_async_image ==
    /\ wmk.pc = "idle"
    /\ \E img \in DecImages, return_format \in ReturnFormats,
          o \in GeminiOutcomes, plan \in AdvisoryPlans :
          LET analysis == IF GeminiCallMade(img)
                          THEN analysis_after_response(img, o, plan)
                          ELSE fallback_analysis(img)
          IN wmk' = [pc |-> "done", fn |-> "enhance_photo_async",
                     path |-> "enhance", img |-> img,
                     raised |-> analysis.raised,
                     trace |-> << Stage("decoded", Mode(img)) >>
                               \o (IF analysis.raised THEN << >>
                                   ELSE OpStages(analysis.plan, Mode(img))
                                        \o (IF return_format = "base64"
                                            THEN << Stage("encoded", convert_rgb(Mode(img))) >>
                                            ELSE << >>))]
    /\ UNCHANGED << gemini_available, request, dec, exe, plc, sty, crt >>

\* enhance_image_simple (simple_server.py) and enhance_image_smart
\* (api/index.py) convert right after Image.open; six and four operations
server_enhance_image ==
    /\ wmk.pc = "idle"
    /\ \E img \in DecImages, fn \in {"enhance_image_simple", "enhance_image_smart"} :
          wmk' = [pc |-> "done", fn |-> fn, path |-> "enhance", img |-> img,
                  raised |-> FALSE,
                  trace |-> << Stage("decoded", Mode(img)) >>
                            \o [k \in 1..(IF fn = "enhance_image_simple" THEN 6 ELSE 4)
                                   |-> Stage("enhancement_op", convert_rgb(Mode(img)))]
                            \o << Stage("encoded", convert_rgb(Mode(img))) >>]
    /\ UNCHANGED << gemini_available, request, dec, exe, plc, sty, crt >>

\* the zone names _analyze_composition scores
ZoneNames == {"top_left", "top_right", "bottom_left", "bottom_right", "center"}

\* config.get("position", ...): absent, a known name, an unknown name
ConfigPositions == {"absent", "top_left", "top_center", "middle"}

\* _analyze_watermark_placement: the best-scoring zone, or
\* _fallback_placement_analysis when the analysis raised
analyze_watermark_placement(best, analysis_fails) ==
    IF analysis_fails
    THEN [optimal_position |-> "bottom_right", fallback |-> TRUE]
    ELSE [optimal_position |-> best, fallback |-> FALSE]

\* the key of the positions dict that places the text
text_position_key(config_position, placement_analysis) ==
    LET position == IF config_position = "absent"
                    THEN placement_analysis.optimal_position
                    ELSE config_position
    IN IF position \in ZoneNames \cup {"top_center", "bottom_center"}
       THEN position ELSE "bottom_right"

\* _apply_watermark with an except branch that raises like its caller's
apply_watermark_reraise(mode, translucent, render_fails) ==
    IF render_fails
    THEN [raised |-> TRUE, px |-> "none", mode |-> mode, stages |-> << >>]
    ELSE IF translucent
    THEN [raised |-> FALSE, px |-> "watermarked", mode |-> "RGB",
          stages |-> << Stage("overlay", "RGBA"), Stage("composite", "RGBA"),
                        Stage("collapsed", "RGB") >>]
    ELSE [raised |-> FALSE, px |-> "watermarked", mode |-> mode,
          stages |-> << Stage("render", mode) >>]

\* _apply_watermark: with opacity < 1.0 the text is drawn on an RGBA overlay,
\* composited on image.convert('RGBA') and converted to RGB; otherwise it is
\* drawn on the copy; any exception returns the image passed in.
apply_watermark(mode, translucent, render_fails) ==
    IF render_fails
    THEN [raised |-> FALSE, px |-> "source", mode |-> mode, stages |-> << >>]
    ELSE IF translucent
    THEN [raised |-> FALSE, px |-> "watermarked", mode |-> "RGB",
          stages |-> << Stage("overlay", "RGBA"), Stage("composite", "RGBA"),
                        Stage("collapsed", "RGB") >>]
    ELSE [raised |-> FALSE, px |-> "watermarked", mode |-> mode,
          stages |-> << Stage("render", mode) >>]

\* WatermarkService.add_watermark_async on a downloaded image
WatermarkService_add_watermark_async_image ==
    /\ wmk.pc = "idle"
    /\ \E img \in DecImages, best \in ZoneNames, config_position \in ConfigPositions,
          analysis_fails \in BOOLEAN, render_fails \in BOOLEAN,
          translucent \in BOOLEAN, return_format \in ReturnFormats :
          LET placement_analysis == analyze_watermark_placement(best, analysis_fails)
              step == apply_watermark(Mode(img), translucent, render_fails)
          IN wmk' = [pc |-> "done", fn |-> "add_watermark_async",
                     path |-> "watermark", img |-> img,
                     analysis_fails |-> analysis_fails,
                     render_fails |-> render_fails,
                     config_position |-> config_position,
                     placement_analysis |-> placement_analysis,
                     text_position |->
                        text_position_key(config_position, placement_analysis),
                     raised |-> step.raised,
                     step_px |-> step.px,
                     step_mode |-> step.mode,
                     trace |-> << Stage("decoded", Mode(img)) >> \o step.stages
                               \o (IF ~step.raised /\ return_format = "base64"
                                   THEN << Stage("encoded", convert_rgb(step.mode)) >>
                                   ELSE << >>)]
    /\ UNCHANGED << gemini_available, request, dec, exe, plc, sty, crt >>

\* simple_server.py add_revolutionary_watermark on a decodable image: RGBA
\* from the conversion before the overlay to the composite, RGB at save; any
\* exception returns the input string, nothing is encoded
simple_server_add_revolutionary_watermark_image ==
    /\ wmk.pc = "idle"
    /\ \E img \in DecImages, render_fails \in BOOLEAN :
          wmk' = [pc |-> "done", fn |-> "add_revolutionary_watermark",
                  path |-> "watermark", img |-> img,
                  render_fails |-> render_fails, raised |-> FALSE,
                  step_px |-> IF render_fails THEN "source" ELSE "watermarked",
                  trace |-> << Stage("decoded", Mode(img)), Stage("overlay", "RGBA") >>
                            \o (IF render_fails THEN << >>
                                ELSE << Stage("composite", "RGBA"),
                                        Stage("collapsed", "RGB"),
                                        Stage("encoded", "RGB") >>)]
    /\ UNCHANGED << gemini_available, request, dec, exe, plc, sty, crt >>

----------------------------------------------------------------------------
(* app/services/certificate_service.py and app/routes/certificate_routes.py *)

\* the keys of COMPANY_SETTINGS
COMPANY_SETTINGS == {"dewise", "tic"}

CompanyIds == COMPANY_SETTINGS \cup {"nonexistent_company"}

\* what generate meets once the paths were validated: nothing, a file that
\* is no font or image (OSError), a file removed meanwhile
GenerateOutcomes == {"ok", "OSError", "FileNotFoundError"}

\* CertificateGenerator.__init__ looking the settings up before the
\* membership test
CertificateGenerator_init_lookup_first(company_id, template_exists, fonts_exist) ==
    IF company_id \notin COMPANY_SETTINGS
    THEN [raised |-> "KeyError", opened |-> << >>]
    ELSE IF ~template_exists
    THEN [raised |-> "FileNotFoundError", opened |-> << >>]
    ELSE IF ~fonts_exist
    THEN [raised |-> "FileNotFoundError", opened |-> << >>]
    ELSE [raised |-> "none", opened |-> << >>]

\* CertificateGenerator.__init__ with _validate_paths; Path.exists opens
\* no file
CertificateGenerator_init(company_id, template_exists, fonts_exist) ==
    IF company_id \notin COMPANY_SETTINGS
    THEN [raised |-> "ValueError", opened |-> << >>]
    ELSE IF ~template_exists
    THEN [raised |-> "FileNotFoundError", opened |-> << >>]
    ELSE IF ~fonts_exist
    THEN [raised |-> "FileNotFoundError", opened |-> << >>]
    ELSE [raised |-> "none", opened |-> << >>]

\* the except clauses of the route handlers, in order
status_of(raised) ==
    CASE raised = "none" -> 200
      [] raised = "ValueError" -> 400
      [] raised \in {"TypeError", "KeyError"} -> 422
      [] raised = "FileNotFoundError" -> 404
      [] OTHER -> 500

\* POST /{company_id}/generate-certificate/ with a body FastAPI accepted
create_certificate ==
    /\ crt.pc = "idle"
    /\ \E company_id \in CompanyIds, template_exists \in BOOLEAN,
          fonts_exist \in BOOLEAN, outcome_of_generate \in GenerateOutcomes :
          LET generator == CertificateGenerator_init(company_id, template_exists,
                                                     fonts_exist)
              raised == IF generator.raised # "none" THEN generator.raised
                        ELSE IF outcome_of_generate = "ok" THEN "none"
                        ELSE outcome_of_generate
          IN crt' = [pc |-> "done", fn |-> "create_certificate",
                     company_id |-> company_id,
                     template_exists |-> template_exists,
                     fonts_exist |-> fonts_exist,
                     init_raised |-> generator.raised,
                     raised |-> raised,
                     opened |-> IF generator.raised # "none" THEN generator.opened
                                ELSE << "template" >>
                                     \o (IF outcome_of_generate = "ok"
                                         THEN << "title", "text", "text" >> ELSE << >>),
                     tmp_created |-> raised = "none",
                     status |-> status_of(raised)]
    /\ UNCHANGED << gemini_available, request, dec, exe, plc, sty, wmk >>

\* template_type values of a flyer request; 'team' is what the sample
\* request in the source sends
TemplateTypes == {"regional_coordinator", "mentors", "team1", "team2", "team3",
                  "team4", "team5", "team"}

\* _load_template returns a template (TRUE) or raises ValueError (FALSE)
load_template_accepts(template_type, image_count) ==
    \/ template_type = "regional_coordinator" /\ image_count = 1
    \/ template_type = "mentors" /\ image_count = 1
    \/ template_type = "team1" /\ image_count = 1
    \/ template_type = "team2"
    \/ template_type = "team3" /\ image_count = 3
    \/ template_type = "team4" /\ image_count = 4
    \/ template_type = "team5" /\ image_count = 5

\* the positions dict of _get_position_for_image
positions ==
    [mentor |-> << << 160, 718 >> >>,
     regional |-> << << 490, 855 >> >>,
     team_1 |-> << << 490, 855 >> >>,
     team_2 |-> << << 121, 628 >>, << 121, 1080 >> >>,
     team_3 |-> << << 121, 628 >>, << 121, 1080 >>, << 520, 850 >> >>,
     team_4 |-> << << 108, 540 >>, << 108, 1000 >>, << 504, 768 >>, << 504, 1215 >> >>,
     team_5 |-> << << 106, 640 >>, << 106, 1100 >>, << 492, 403 >>, << 495, 870 >>,
                   << 492, 1320 >> >>]

\* positions.get(template_type, positions.get(<fallback key>)): no
\* template_type that reaches a branch is a key of the dict
position_list(template_type) ==
    CASE template_type \in {"mentors", "regional_coordinator"} -> positions.mentor
      [] template_type = "team1" -> positions.team_1
      [] template_type = "team2" -> positions.team_2
      [] template_type = "team3" -> positions.team_3
      [] template_type = "team4" -> positions.team_4
      [] template_type = "team5" -> positions.team_5
      [] OTHER -> positions.team_1

RECURSIVE paste_images(_, _, _)
\* the loop of generate from image index (0-based) on: fetch, position,
\* paste; [index] beyond the list raises IndexError after the fetch
paste_images(template_type, index, image_count) ==
    IF index >= image_count
    THEN [raised |-> "none", fetched |-> index, pasted |-> index]
    ELSE IF index + 1 > Len(position_list(template_type))
    THEN [raised |-> "IndexError", fetched |-> index + 1, pasted |-> index]
    ELSE paste_images(template_type, index + 1, image_count)

\* TICFlyerGenerator.generate with images that can all be fetched
TICFlyerGenerator_generate ==
    /\ crt.pc = "idle"
    /\ \E template_type \in TemplateTypes, image_count \in 0..MaxFlyerImages :
          LET accepted == load_template_accepts(template_type, image_count)
              run == IF accepted THEN paste_images(template_type, 0, image_count)
                     ELSE [raised |-> "ValueError", fetched |-> 0, pasted |-> 0]
          IN crt' = [pc |-> "done", fn |-> "generate",
                     template_type |-> template_type,
                     image_count |-> image_count,
                     accepted |-> accepted,
                     raised |-> run.raised,
                     fetched |-> run.fetched,
                     pasted |-> run.pasted,
                     status |-> status_of(run.raised)]
    /\ UNCHANGED << gemini_available, request, dec, exe, plc, sty, wmk >>

----------------------------------------------------------------------------
(* services/watermark_service.py *)

\* add_watermark_async raises when the download fails; placement and render
\* failures are absorbed by _analyze_watermark_placement and _apply_watermark.
add_watermark(image_url, return_format) ==
    IF ~ (Truthy(image_url) /\ image_url.kind = "url" /\ Decodable(image_url.img))
    THEN [raised |-> TRUE, err |-> "download failed",
          watermarked_base64 |-> Absent, watermarked_url |-> Absent]
    ELSE IF return_format = "base64"
    THEN [raised |-> FALSE, err |-> "",
          watermarked_base64 |-> Val("watermarked", image_url.img),
          watermarked_url |-> Absent]
    ELSE [raised |-> FALSE, err |-> "",
          watermarked_base64 |-> Absent,
          watermarked_url |-> Val("storage_url", "-")]

----------------------------------------------------------------------------
(* services/ai_orchestrator.py: the workflow *)

\* image_url=image_url or f"data:image/jpeg;base64,{image_base64}" if image_base64 else None
\* parses as (image_url or f"...") if image_base64 else None
initial_image_url(image_url, image_base64) ==
    IF Truthy(image_base64)
    THEN IF Truthy(image_url) THEN image_url
         ELSE Val("data_url", image_base64.img)
    ELSE NoneV

\* _route_to_processor with the final else branch falling into "enhancement"
route_to_processor_default_enhancement(s) ==
    IF s.error_message # "" THEN "error"
    ELSE IF s.task_type = "watermarking" THEN "watermarking"
    ELSE "enhancement"

\* _route_to_processor
route_to_processor(s) ==
    IF s.error_message # "" THEN "error"
    ELSE IF s.task_type = "enhancement" THEN "enhancement"
    ELSE IF s.task_type = "watermarking" THEN "watermarking"
    ELSE "error"

\* the mapping of add_conditional_edges
conditional_edge(r) ==
    CASE r = "enhancement"  -> "enhancement_agent"
      [] r = "watermarking" -> "watermark_agent"
      [] OTHER              -> "END"

\* the processors' edges leading back to the entry point
processor_edge_to_entry_point == "image_analyzer"

\* add_edge("enhancement_agent", "quality_checker") and
\* add_edge("watermark_agent", "quality_checker")
processor_edge == "quality_checker"

\* an except branch that records the status but not the message
agent_error_status_only(s, msg) ==
    [s EXCEPT !.processing_status = "error"]

\* the except branch of an agent
agent_error(s, msg) ==
    [s EXCEPT !.error_message = msg, !.processing_status = "error"]

\* The state a run starts from
StartRun(s) ==
    /\ state' = s
    /\ node' = "image_analyzer"
    /\ epc' = "-"
    /\ pending' = "-"
    /\ agents_run' = << >>
    /\ statuses' = << s.processing_status >>
    /\ failed' = "none"

\* _image_analyzer_agent, followed by the conditional edge.  The analysis is
\* the fixed simulated result; with the states the entry points build, the
\* try block cannot raise.
image_analyzer_agent ==
    /\ UNCHANGED pure
    /\ node = "image_analyzer"
    /\ LET s1 == [state EXCEPT !.result_data.has_analysis = TRUE,
                               !.result_data.image_type = "portrait",
                               !.processing_status = "analyzed"]
       IN /\ state' = s1
          /\ node' = conditional_edge(route_to_processor(s1))
          /\ statuses' = Append(statuses, s1.processing_status)
    /\ agents_run' = Append(agents_run, "image_analyzer")
    /\ UNCHANGED << gemini_available, entry, req, epc, pending, failed,
                    enhancerCall, queue, runLog, results, runsStarted,
                    outcome, response >>

\* The arguments _enhancement_agent passes to the enhancement service
enhancer_args(s) ==
    [called |-> TRUE,
     image_url |-> IF ~ Truthy(s.result_data.image_base64)
                   THEN s.image_url ELSE NoneV,
     image_base64 |-> Get(s.result_data.image_base64),
     enhancement_type |-> IF s.result_data.has_analysis
                          THEN s.result_data.image_type ELSE "auto"]

\* The end of _enhancement_agent: the result of the service is stored, or
\* its exception is recorded by the except branch.
enhancement_agent_finish(res) ==
    /\ LET rd == state.result_data
           s1 == IF res.raised
                 THEN agent_error(state, res.err)
                 ELSE [state EXCEPT
                        !.result_data.enhanced_base64 =
                            IF res.enhanced_base64 # Absent
                            THEN res.enhanced_base64 ELSE rd.enhanced_base64,
                        !.result_data.enhanced_url =
                            IF res.enhanced_url # Absent
                            THEN res.enhanced_url ELSE rd.enhanced_url,
                        !.result_data.enhancements_applied =
                            res.enhancements_applied,
                        !.processing_status = "enhanced"]
       IN /\ state' = s1
          /\ statuses' = Append(statuses, s1.processing_status)
          /\ failed' = IF res.raised THEN "enhancement_agent" ELSE failed
    /\ node' = processor_edge
    /\ epc' = "-"
    /\ pending' = "-"

RaisedResult(msg) ==
    [raised |-> TRUE, err |-> msg, enhanced_base64 |-> Absent,
     enhanced_url |-> Absent, enhancements_applied |-> << >>]

\* _enhancement_agent up to the point where enhance_photo_async either has
\* its result without the advisory service or waits in generate_content.
enhancement_agent ==
    /\ UNCHANGED pure
    /\ node = "enhancement_agent"
    /\ epc = "-"
    /\ agents_run' = Append(agents_run, "enhancement_agent")
    /\ LET a  == enhancer_args(state)
           ob == ObtainImage(a.image_url, a.image_base64)
       IN /\ enhancerCall' = a
          /\ IF ~ ob.ok
             THEN enhancement_agent_finish(RaisedResult(ob.err))
             ELSE IF GeminiCallMade(ob.img)
             THEN /\ epc' = "generate_content"
                  /\ pending' = ob.img
                  /\ UNCHANGED << state, node, statuses, failed >>
             ELSE \E opFails \in BOOLEAN :
                     enhancement_agent_finish(
                        enhance_result(fallback_analysis(ob.img), ob.img,
                                       opFails, state.result_data.return_format))
    /\ UNCHANGED << gemini_available, entry, req, queue, runLog, results,
                    runsStarted, outcome, response >>

\* self.gemini_model.generate_content answers (or raises); the rest of
\* enhance_photo_async and of _enhancement_agent follows.  The call passes no
\* timeout, so nothing in the program ends the wait.
generate_content_returns ==
    /\ UNCHANGED pure
    /\ node = "enhancement_agent"
    /\ epc = "generate_content"
    /\ \E o \in GeminiOutcomes, plan \in AdvisoryPlans, opFails \in BOOLEAN :
          enhancement_agent_finish(
             enhance_result(analysis_after_response(pending, o, plan), pending,
                            opFails, state.result_data.return_format))
    /\ UNCHANGED << gemini_available, entry, req, agents_run, enhancerCall,
                    queue, runLog, results, runsStarted, outcome, response >>

\* _watermark_agent
watermark_agent ==
    /\ UNCHANGED pure
    /\ node = "watermark_agent"
    /\ agents_run' = Append(agents_run, "watermark_agent")
    /\ LET rd  == state.result_data
           res == add_watermark(state.image_url, rd.return_format)
           s1  == IF res.raised
                  THEN agent_error(state, res.err)
                  ELSE [state EXCEPT
                         !.result_data.watermarked_base64 =
                             IF res.watermarked_base64 # Absent
                             THEN res.watermarked_base64
                             ELSE rd.watermarked_base64,
                         !.result_data.watermarked_url =
                             IF res.watermarked_url # Absent
                             THEN res.watermarked_url ELSE rd.watermarked_url,
                         !.processing_status = "watermarked"]
       IN /\ state' = s1
          /\ statuses' = Append(statuses, s1.processing_status)
          /\ failed' = IF res.raised THEN "watermark_agent" ELSE failed
    /\ node' = processor_edge
    /\ UNCHANGED << gemini_available, entry, req, epc, pending, enhancerCall,
                    queue, runLog, results, runsStarted, outcome, response >>

\* _quality_checker_agent, then add_edge("quality_checker", "finalizer")
quality_checker_agent ==
    /\ UNCHANGED pure
    /\ node = "quality_checker"
    /\ agents_run' = Append(agents_run, "quality_checker")
    /\ state' = [state EXCEPT !.result_data.has_quality_check = TRUE,
                              !.processing_status = "quality_checked"]
    /\ statuses' = Append(statuses, "quality_checked")
    /\ node' = "finalizer"
    /\ UNCHANGED << gemini_available, entry, req, epc, pending, failed,
                    enhancerCall, queue, runLog, results, runsStarted,
                    outcome, response >>

\* _finalizer_agent, then add_edge("finalizer", END)
finalizer_agent ==
    /\ UNCHANGED pure
    /\ node = "finalizer"
    /\ agents_run' = Append(agents_run, "finalizer")
    /\ state' = [state EXCEPT !.result_data.final_status = "completed",
                              !.result_data.has_time = TRUE,
                              !.processing_status = "completed"]
    /\ statuses' = Append(statuses, "completed")
    /\ node' = "END"
    /\ UNCHANGED << gemini_available, entry, req, epc, pending, failed,
                    enhancerCall, queue, runLog, results, runsStarted,
                    outcome, response >>

----------------------------------------------------------------------------
(* Entry points *)

\* Image lists of at most n elements over the set S
SeqsUpTo(S, n) == UNION { [1..k -> S] : k \in 0..n }

\* The images batch requests are built from
BatchImages == {"rgb", "gray", "bad"}

Called == entry # "none"

Returned(code, ok, imgs, n) ==
    [code |-> code, success |-> ok, images |-> imgs, processed_count |-> n]

\* app.py PhotoEnhancement.post up to and including the start of the
\* workflow in AIOrchestrator.enhance_photo_async
PhotoEnhancement_post ==
    /\ UNCHANGED pure
    /\ ~ Called
    /\ \E iu \in {Absent, EmptyS, Url("rgb"), Url("bad")},
          ib \in {Absent} \cup { B64(i) : i \in ImageIds },
          et \in EnhancementTypes, rf \in ReturnFormats :
          /\ entry' = "app_enhance"
          /\ req' = [NoReq EXCEPT !.image_url = iu, !.image_base64 = ib,
                                  !.enhancement_type = et, !.return_format = rf]
          /\ IF iu = Absent /\ ib = Absent
             THEN /\ response' = Returned(400, FALSE, << >>, 0)
                  /\ UNCHANGED << state, node, epc, pending, agents_run,
                                  statuses, failed >>
             ELSE /\ StartRun([image_url |-> initial_image_url(Get(iu), Get(ib)),
                               task_type |-> "enhancement",
                               processing_status |-> "started",
                               error_message |-> "",
                               result_data |->
                                  [EmptyResultData EXCEPT
                                      !.return_format = rf,
                                      !.image_base64 = Get(ib)]])
                  /\ UNCHANGED response
    /\ UNCHANGED << gemini_available, enhancerCall, queue, runLog, results,
                    runsStarted, outcome >>

\* The end of AIOrchestrator.enhance_photo_async and of PhotoEnhancement.post
enhance_photo_return ==
    /\ UNCHANGED pure
    /\ entry = "app_enhance"
    /\ node = "END"
    /\ node' = "done"
    /\ LET rd == state.result_data
       IN IF state.error_message # ""
          THEN /\ outcome' = [NoOutcome EXCEPT !.kind = "raised",
                                               !.error = state.error_message]
               /\ response' = Returned(500, FALSE, << >>, 0)
          ELSE /\ outcome' = [NoOutcome EXCEPT
                                !.kind = "returned",
                                !.data = << rd.enhanced_base64, rd.enhanced_url >>]
               /\ response' =
                    IF req.return_format = "base64" /\ rd.enhanced_base64 # Absent
                    THEN Returned(200, TRUE, << rd.enhanced_base64 >>, 1)
                    ELSE Returned(200, TRUE,
                                  << IF rd.enhanced_url = Absent
                                     THEN EmptyS ELSE rd.enhanced_url >>, 1)
    /\ UNCHANGED << gemini_available, entry, req, state, epc, pending,
                    agents_run, statuses, failed, enhancerCall, queue, runLog,
                    results, runsStarted >>

\* self.workflow.ainvoke(initial_state) for a state with any task_type
workflow_ainvoke ==
    /\ UNCHANGED pure
    /\ ~ Called
    /\ \E tt \in TaskTypes, i \in BatchImages, rf \in ReturnFormats :
          /\ entry' = "ainvoke"
          /\ req' = [NoReq EXCEPT !.image_url = Url(i), !.return_format = rf]
          /\ StartRun([image_url |-> Url(i), task_type |-> tt,
                       processing_status |-> "started", error_message |-> "",
                       result_data |-> [EmptyResultData EXCEPT
                                           !.return_format = rf]])
    /\ UNCHANGED << gemini_available, enhancerCall, queue, runLog, results,
                    runsStarted, outcome, response >>

\* ainvoke returns the final state
workflow_ainvoke_return ==
    /\ UNCHANGED pure
    /\ entry = "ainvoke"
    /\ node = "END"
    /\ node' = "done"
    /\ outcome' = [NoOutcome EXCEPT !.kind = "final_state",
                                    !.error = state.error_message]
    /\ UNCHANGED << gemini_available, entry, req, state, epc, pending,
                    agents_run, statuses, failed, enhancerCall, queue, runLog,
                    results, runsStarted, response >>

\* app.py BulkWatermarking.post up to the call of
\* AIOrchestrator.bulk_watermark_async: only the presence of image_urls is
\* validated.
BulkWatermarking_post ==
    /\ UNCHANGED pure
    /\ ~ Called
    /\ \E hasKey \in BOOLEAN, urls \in SeqsUpTo(BatchImages, MaxBatch),
          rf \in ReturnFormats :
          /\ hasKey \/ urls = << >>
          /\ entry' = "app_bulk"
          /\ req' = [NoReq EXCEPT !.images = urls, !.return_format = rf]
          /\ IF ~ hasKey
             THEN /\ response' = Returned(400, FALSE, << >>, 0)
                  /\ queue' = << >>
             ELSE /\ UNCHANGED response
                  /\ queue' = urls
    /\ UNCHANGED << gemini_available, state, node, epc, pending, agents_run,
                    statuses, failed, enhancerCall, runLog, results,
                    runsStarted, outcome >>

\* One iteration of the loop of bulk_watermark_async starts a run
bulk_watermark_next ==
    /\ UNCHANGED pure
    /\ entry = "app_bulk"
    /\ response.code = 0
    /\ node \in {"idle"}
    /\ queue # << >>
    /\ StartRun([image_url |-> Url(Head(queue)), task_type |-> "watermarking",
                 processing_status |-> "started", error_message |-> "",
                 result_data |-> [EmptyResultData EXCEPT
                                     !.return_format = req.return_format]])
    /\ runsStarted' = runsStarted + 1
    /\ UNCHANGED << gemini_available, entry, req, enhancerCall, queue, runLog,
                    results, outcome, response >>

\* The rest of the iteration: the result is appended unless the run recorded
\* an error; result_data["watermarked_url"] raises KeyError when the key is
\* absent and the except branch of the loop only logs.
bulk_watermark_collect ==
    /\ UNCHANGED pure
    /\ entry = "app_bulk"
    /\ node = "END"
    /\ node' = "idle"
    /\ queue' = Tail(queue)
    /\ runLog' = Append(runLog, state.error_message = "")
    /\ results' = IF state.error_message = ""
                     /\ state.result_data.watermarked_url # Absent
                  THEN Append(results, state.result_data.watermarked_url)
                  ELSE results
    /\ UNCHANGED << gemini_available, entry, req, state, epc, pending,
                    agents_run, statuses, failed, enhancerCall, runsStarted,
                    outcome, response >>

\* The end of bulk_watermark_async and of BulkWatermarking.post: the result
\* of the orchestrator never has the key watermarked_base64.
bulk_watermark_return ==
    /\ UNCHANGED pure
    /\ entry = "app_bulk"
    /\ response.code = 0
    /\ node = "idle"
    /\ queue = << >>
    /\ node' = "done"
    /\ outcome' = [NoOutcome EXCEPT !.kind = "returned", !.data = results,
                                    !.count = Len(results)]
    /\ response' = Returned(200, TRUE, results, Len(results))
    /\ UNCHANGED << gemini_available, entry, req, state, epc, pending,
                    agents_run, statuses, failed, enhancerCall, queue, runLog,
                    results, runsStarted >>

----------------------------------------------------------------------------
(* simple_server.py, api/index.py and WatermarkService.bulk_watermark_async *)

RECURSIVE MapSeq(_, _)
\* [f(x) for x in xs], f given as a function
MapSeq(f, xs) == IF xs = << >> THEN << >>
                 ELSE << f[Head(xs)] >> \o MapSeq(f, Tail(xs))

RECURSIVE SelectPresent(_)
\* the elements of xs that are present
SelectPresent(xs) ==
    IF xs = << >> THEN << >>
    ELSE (IF Head(xs) # Absent THEN << Head(xs) >> ELSE << >>)
         \o SelectPresent(Tail(xs))

\* add_revolutionary_watermark: the watermarked image, or the input string
\* itself when anything raised (the except branch returns image_base64)
add_revolutionary_watermark(image_base64) ==
    IF Decodable(image_base64.img)
    THEN Val("watermarked", image_base64.img)
    ELSE image_base64

\* enhance_image_simple / enhance_image_smart: same shape
enhance_image_simple(image_base64) ==
    IF Decodable(image_base64.img)
    THEN Val("enhanced", image_base64.img)
    ELSE image_base64

\* the body shared by watermark_photos of simple_server.py and api/index.py
watermark_photos(name) ==
    /\ UNCHANGED pure
    /\ ~ Called
    /\ \E imgs \in SeqsUpTo(BatchImages, MaxBatch) :
          LET list == MapSeq([i \in BatchImages |-> B64(i)], imgs)
          IN /\ entry' = name
             /\ req' = [NoReq EXCEPT !.images = imgs, !.return_format = "base64"]
             /\ IF list = << >>
                THEN /\ response' = Returned(400, FALSE, << >>, 0)
                     /\ UNCHANGED runsStarted
                ELSE IF Len(list) > MaxImages
                THEN /\ response' = Returned(400, FALSE, << >>, 0)
                     /\ UNCHANGED runsStarted
                ELSE /\ response' =
                          Returned(200, TRUE,
                                   MapSeq([v \in { B64(i) : i \in BatchImages }
                                             |-> add_revolutionary_watermark(v)],
                                          list),
                                   Len(list))
                     /\ runsStarted' = Len(list)
    /\ node' = "done"
    /\ UNCHANGED << gemini_available, state, epc, pending, agents_run,
                    statuses, failed, enhancerCall, queue, runLog, results,
                    outcome >>

\* simple_server.py watermark_photos
simple_server_watermark_photos == watermark_photos("simple_watermark")

\* api/index.py watermark_photos
api_watermark_photos == watermark_photos("api_watermark")

\* simple_server.py enhance: a request without image_base64 is answered with
\* a placeholder image
simple_server_enhance ==
    /\ UNCHANGED pure
    /\ ~ Called
    /\ \E ib \in {Absent} \cup { B64(i) : i \in ImageIds } :
          /\ entry' = "simple_enhance"
          /\ req' = [NoReq EXCEPT !.image_base64 = ib]
          /\ response' = IF Truthy(ib)
                         THEN Returned(200, TRUE, << enhance_image_simple(ib) >>, 1)
                         ELSE Returned(200, TRUE, << Val("placeholder", "-") >>, 1)
    /\ node' = "done"
    /\ UNCHANGED << gemini_available, state, epc, pending, agents_run,
                    statuses, failed, enhancerCall, queue, runLog, results,
                    runsStarted, outcome >>

\* api/index.py enhance_photo
api_enhance_photo ==
    /\ UNCHANGED pure
    /\ ~ Called
    /\ \E ib \in {Absent} \cup { B64(i) : i \in ImageIds } :
          /\ entry' = "api_enhance"
          /\ req' = [NoReq EXCEPT !.image_base64 = ib]
          /\ response' = IF ~ Truthy(ib)
                         THEN Returned(400, FALSE, << >>, 0)
                         ELSE Returned(200, TRUE, << enhance_image_simple(ib) >>, 1)
    /\ node' = "done"
    /\ UNCHANGED << gemini_available, state, epc, pending, agents_run,
                    statuses, failed, enhancerCall, queue, runLog, results,
                    runsStarted, outcome >>

\* WatermarkService.bulk_watermark_async: asyncio.gather with
\* return_exceptions=True, then the results of the tasks that did not raise
\* are collected under the key of the return format.
WatermarkService_bulk_watermark_async ==
    /\ UNCHANGED pure
    /\ ~ Called
    /\ \E urls \in SeqsUpTo(BatchImages, MaxBatch), rf \in ReturnFormats :
          LET completed == MapSeq([i \in BatchImages |->
                                      add_watermark(Url(i), rf)], urls)
              outs == MapSeq([r \in { add_watermark(Url(i), rf) : i \in BatchImages }
                                |-> IF r.raised THEN Absent
                                    ELSE IF rf = "base64"
                                            /\ r.watermarked_base64 # Absent
                                    THEN r.watermarked_base64
                                    ELSE r.watermarked_url],
                             completed)
          IN /\ entry' = "service_bulk"
             /\ req' = [NoReq EXCEPT !.images = urls, !.return_format = rf]
             /\ runsStarted' = Len(urls)
             /\ runLog' = MapSeq([r \in { add_watermark(Url(i), rf) : i \in BatchImages }
                                    |-> ~ r.raised], completed)
             /\ results' = SelectPresent(outs)
             /\ outcome' = [NoOutcome EXCEPT !.kind = "returned",
                                             !.data = SelectPresent(outs),
                                             !.count = Len(SelectPresent(outs))]
    /\ node' = "done"
    /\ UNCHANGED << gemini_available, state, epc, pending, agents_run,
                    statuses, failed, enhancerCall, queue, response >>

----------------------------------------------------------------------------
Init ==
    /\ gemini_available \in BOOLEAN
    /\ entry = "none"
    /\ req = NoReq
    /\ state = NoState
    /\ node = "idle"
    /\ epc = "-"
    /\ pending = "-"
    /\ agents_run = << >>
    /\ statuses = << >>
    /\ failed = "none"
    /\ enhancerCall = NoCall
    /\ queue = << >>
    /\ runLog = << >>
    /\ results = << >>
    /\ runsStarted = 0
    /\ outcome = NoOutcome
    /\ response = NoResponse
    /\ dec = NoDec
    /\ exe = NoExe
    /\ plc = NoPlc
    /\ sty = NoSty
    /\ wmk = NoWmk
    /\ crt = NoCrt

Next ==
    \/ PhotoEnhancement_post
    \/ enhance_photo_return
    \/ workflow_ainvoke
    \/ workflow_ainvoke_return
    \/ BulkWatermarking_post
    \/ bulk_watermark_next
    \/ bulk_watermark_collect
    \/ bulk_watermark_return
    \/ simple_server_watermark_photos
    \/ api_watermark_photos
    \/ simple_server_enhance
    \/ api_enhance_photo
    \/ WatermarkService_bulk_watermark_async
    \/ image_analyzer_agent
    \/ enhancement_agent
    \/ generate_content_returns
    \/ watermark_agent
    \/ quality_checker_agent
    \/ finalizer_agent

Spec == Init /\ [][Next]_vars

\* Every step the program takes by itself; the answer of the advisory
\* service is the environment's step.
ProgramStep ==
    \/ PhotoEnhancement_post
    \/ enhance_photo_return
    \/ workflow_ainvoke
    \/ workflow_ainvoke_return
    \/ BulkWatermarking_post
    \/ bulk_watermark_next
    \/ bulk_watermark_collect
    \/ bulk_watermark_return
    \/ simple_server_watermark_photos
    \/ api_watermark_photos
    \/ simple_server_enhance
    \/ api_enhance_photo
    \/ WatermarkService_bulk_watermark_async
    \/ image_analyzer_agent
    \/ enhancement_agent
    \/ watermark_agent
    \/ quality_checker_agent
    \/ finalizer_agent

\* The program is always scheduled; the advisory service need not answer.
FairSpec == Init /\ [][Next]_vars /\ WF_vars(ProgramStep)

\* One call of the decision engine, or of enhance_image_smart
DecisionNext ==
    \/ analyze_image_with_gemini
    \/ analyze_generate_content_returns
    \/ enhance_image_smart

DecisionSpec == Init /\ [][DecisionNext]_vars

\* One call of an enhancement executor
ExecutorNext ==
    \/ PhotoEnhancementService_apply_enhancements
    \/ simple_server_enhance_image_simple

ExecutorSpec == Init /\ [][ExecutorNext]_vars

\* One computation of a watermark position
PlacementNext ==
    \/ simple_server_watermark_pos
    \/ api_watermark_pos

PlacementSpec == Init /\ [][PlacementNext]_vars

\* One rendering of a watermark text
StyleNext ==
    \/ simple_server_apply_watermark_style
    \/ api_apply_watermark_style

StyleSpec == Init /\ [][StyleNext]_vars

\* One image through one enhance or watermark path
ImageNext ==
    \/ PhotoEnhancementService_enhance_photo_async_image
    \/ server_enhance_image
    \/ WatermarkService_add_watermark_async_image
    \/ simple_server_add_revolutionary_watermark_image

ImageSpec == Init /\ [][ImageNext]_vars

\* One request to the certificate or flyer service
CertificateNext ==
    \/ create_certificate
    \/ TICFlyerGenerator_generate

CertificateSpec == Init /\ [][CertificateNext]_vars

----------------------------------------------------------------------------
(* Properties *)

RunEnded == node \in {"END", "done"}

RECURSIVE CountTrue(_)
CountTrue(bs) == IF bs = << >> THEN 0
                 ELSE (IF Head(bs) THEN 1 ELSE 0) + CountTrue(Tail(bs))

Range(xs) == { xs[k] : k \in 1..Len(xs) }

IsPrefix(a, b) == Len(a) <= Len(b) /\ \A k \in 1..Len(a) : a[k] = b[k]

\* C1: error is terminal in the workflow: once processing_status is 'error'
\* it stays 'error' and no further agent runs, and a run whose enhancement or
\* watermark agent failed does not end with processing_status or
\* result_data.final_status 'completed'.
C1_ErrorIsTerminal ==
    [][ /\ (state.processing_status = "error" /\ node # "END")
            => (state'.processing_status = "error" /\ agents_run' = agents_run)
        /\ (node' = "END" /\ failed' \in {"enhancement_agent", "watermark_agent"})
            => (/\ state'.processing_status # "completed"
                /\ state'.result_data.final_status # "completed") ]_vars

\* C2: a run whose task_type is neither 'enhancement' nor 'watermarking'
\* ends after the analyzer in the Error state: processing_status is 'error',
\* an error message is recorded and no other agent has run.
C2_UnknownTaskTypeIsError ==
    (RunEnded /\ entry = "ainvoke"
       /\ state.task_type \notin {"enhancement", "watermarking"})
    => /\ state.processing_status = "error"
       /\ state.error_message # ""
       /\ agents_run = << "image_analyzer" >>

\* the agents of a complete run for a task type, in graph order
ExpectedAgents(tt) ==
    << "image_analyzer",
       IF tt = "enhancement" THEN "enhancement_agent" ELSE "watermark_agent",
       "quality_checker", "finalizer" >>

StageRank(st) == CASE st = "started"         -> 0
                   [] st = "analyzed"        -> 1
                   [] st = "enhanced"        -> 2
                   [] st = "watermarked"     -> 2
                   [] st = "quality_checked" -> 3
                   [] st = "completed"       -> 4
                   [] OTHER                  -> -1

\* C3: the stages of a run occur only in the order started, analyzed,
\* enhanced or watermarked, quality_checked, completed: the agents run in
\* graph order, the processor is the one task_type names and runs only after
\* 'analyzed', 'quality_checked' comes only after exactly one processor ran,
\* 'completed' only after 'quality_checked', and no stage occurs twice.
C3_StageOrder ==
    /\ IsPrefix(agents_run, ExpectedAgents(state.task_type))
    /\ Len(agents_run) > 1 => state.task_type \in {"enhancement", "watermarking"}
    /\ \A j \in 1..Len(statuses), k \in 1..Len(statuses) :
          (j < k /\ statuses[j] # "error" /\ statuses[k] # "error")
             => StageRank(statuses[j]) < StageRank(statuses[k])
    /\ \A k \in 1..Len(agents_run) :
          agents_run[k] \in {"enhancement_agent", "watermark_agent"}
             => (k = 2 /\ statuses[2] = "analyzed")
    /\ "quality_checked" \in Range(statuses)
          => Cardinality({ k \in 1..Len(agents_run) :
                 agents_run[k] \in {"enhancement_agent", "watermark_agent"} }) = 1
    /\ "completed" \in Range(statuses) => "quality_checked" \in Range(statuses)

\* a run went through every stage
C3_Witness ==
    /\ node = "END"
    /\ statuses = << "started", "analyzed", "watermarked", "quality_checked",
                     "completed" >>
    /\ agents_run = ExpectedAgents("watermarking")

\* C4: the enhancement service raises into the enhancement agent only if the
\* image it was given could not be obtained or decoded.
C4_ErrorOnlyIfImageUnobtainable ==
    (enhancerCall.called /\ failed = "enhancement_agent")
    => ~ ObtainImage(enhancerCall.image_url, enhancerCall.image_base64).ok

\* C5: a request with only image_url reaches the enhancement service with
\* that image_url, and a request with only image_base64 reaches it with that
\* payload.
C5_ImageReferenceReachesEnhancer ==
    (entry = "app_enhance" /\ enhancerCall.called)
    => /\ (Truthy(req.image_url) /\ ~ Truthy(req.image_base64))
             => enhancerCall.image_url = req.image_url
       /\ (Truthy(req.image_base64) /\ ~ Truthy(req.image_url))
             => enhancerCall.image_base64 = req.image_base64

\* C6: the enhancement service is invoked with the enhancement_type the
\* caller requested.
C6_RequestedCategoryReachesEnhancer ==
    (entry = "app_enhance" /\ enhancerCall.called)
    => enhancerCall.enhancement_type = req.enhancement_type

\* C7: a bulk watermark call returns (never raises), its result list holds
\* one output for each item whose run finished without error, and
\* processed_count is the number of those items, between 0 and the number
\* requested.
C7_BulkPartialSuccess ==
    (entry \in {"app_bulk", "service_bulk"} /\ node = "done")
    => /\ outcome.kind = "returned"
       /\ Len(outcome.data) = CountTrue(runLog)
       /\ outcome.count = CountTrue(runLog)
       /\ outcome.count \in 0..Len(req.images)
       /\ entry = "app_bulk" => /\ response.code = 200
                                /\ response.processed_count = CountTrue(runLog)

\* the inputs of a batch that are images
DecodableCount(imgs) == Cardinality({ k \in 1..Len(imgs) : Decodable(imgs[k]) })

\* C8: the enhance and watermark handlers never report an undecodable input
\* as processed: a successful response does not return the input itself as
\* the output, and processed_count does not count such items.
C8_UndecodableInputIsFailure ==
    (entry \in {"simple_watermark", "api_watermark", "simple_enhance",
                "api_enhance"} /\ response.success)
    => /\ \A k \in 1..Len(response.images) :
             ~ (response.images[k].kind = "b64"
                  /\ ~ Decodable(response.images[k].img))
       /\ entry \in {"simple_watermark", "api_watermark"}
             => response.processed_count <= DecodableCount(req.images)

\* C9: a batch of more than 3 images is rejected before any image is
\* processed, at each batch watermark entry point.
C9_BatchLimitEverywhere ==
    (entry \in {"simple_watermark", "api_watermark", "app_bulk"}
       /\ Len(req.images) > MaxImages)
    => /\ runsStarted = 0
       /\ response.code \in {0, 400}
       /\ node \in {"idle", "done"}

\* C10: a request that waits for the advisory service eventually completes,
\* whether or not the service answers.
C10_AdvisoryWaitIsBounded ==
    (epc = "generate_content") ~> (node = "done")

\* "confidence": 0.6 of _fallback_analysis, in hundredths
FallbackConfidence == 60

DecReturned == dec.pc = "returned"

\* C11: when the advisory call failed or was unavailable, the plan returned
\* equals the rule-table plan _get_recommended_enhancements yields for the
\* same metrics and category, and the confidence is at most 0.6.
C11_FallbackPlanIsRuleTablePlan ==
    (DecReturned /\ dec.source = "fallback")
    => /\ dec.result.plan \in get_recommended_enhancements(dec.m, dec.et)
       /\ dec.result.confidence <= FallbackConfidence

\* C12: _analyze_image_with_gemini never raises: for every decodable image
\* and advisory outcome it returns an analysis.
C12_DecisionEngineNeverRaises ==
    dec.pc # "raised"

\* C13: no operation appears twice in a plan the decision engine returns.
C13_NoOperationTwice ==
    DecReturned
    => \A j \in 1..Len(dec.result.plan), k \in 1..Len(dec.result.plan) :
          j # k => dec.result.plan[j] # dec.result.plan[k]

\* C14: every plan computed by the decision engine itself (rule table or
\* fixed fallback) ends with color_balance and detail_enhancement.
C14_BasicEnhancementsLast ==
    (DecReturned /\ dec.source \in {"rule_table", "fallback"})
    => LET q == dec.result.plan
       IN /\ Len(q) >= 2
          /\ { q[Len(q) - 1], q[Len(q)] } = {"color_balance", "detail_enhancement"}

\* does the plan brighten, does it darken
Brightens == /\ "brightness_adjustment" \in SeqRange(dec.result.plan)
             /\ dec.params.brightness > 100
Darkens   == /\ "brightness_adjustment" \in SeqRange(dec.result.plan)
             /\ dec.params.brightness < 100

\* C15: the brightness rule is two-sided: a rule-table plan, and the plan of
\* enhance_image_smart, brightens exactly when brightness is below the dark
\* threshold, darkens exactly when it is above the bright threshold, and
\* never does both.
C15_BrightnessRuleTwoSided ==
    ((DecReturned /\ dec.source = "rule_table") \/ dec.pc = "smart_done")
    => LET dark == IF dec.pc = "smart_done" THEN 100 ELSE LowLightThreshold
       IN /\ Brightens <=> dec.m.brightness < dark
          /\ Darkens <=> dec.m.brightness > OverexposedThreshold
          /\ ~ (Brightens /\ Darkens)

ExeDone == exe.pc = "done"

\* the pixels of the executor's result
OutPixels == exe.heap[exe.out]

Positions(xs, x) == { k \in 1..Len(xs) : xs[k] = x }

\* the operations of the plan other than `skip`, in executor order
RECURSIVE PlanInOrder(_, _, _)
PlanInOrder(ops, plan, skip) ==
    IF ops = << >> THEN << >>
    ELSE (IF Head(ops) \in plan /\ Head(ops) # skip THEN << Head(ops) >> ELSE << >>)
         \o PlanInOrder(Tail(ops), plan, skip)

\* C16: when a plan holds both noise reduction and sharpening and nothing
\* fails, noise reduction is applied to the image before sharpening.
C16_DenoiseBeforeSharpen ==
    (ExeDone /\ exe.failing = "none"
       /\ {"noise_reduction", "sharpening"} \subseteq exe.plan)
    => \A j \in Positions(OutPixels, "noise_reduction"),
          k \in Positions(OutPixels, "sharpening") : j < k

\* C17: when one operation of the plan fails, the output reflects every
\* other operation of the plan, those before and those after the failing one.
C17_FailingOperationSkipped ==
    (ExeDone /\ exe.fn = "_apply_enhancements" /\ exe.failing \in exe.plan)
    => OutPixels = exe.src_px \o PlanInOrder(ExecOps, exe.plan, exe.failing)

\* C18: _apply_enhancements with an empty plan returns an image whose pixels
\* equal the source's, and for every plan, failing or not, the source image
\* object keeps its pixels.
C18_EmptyPlanIdentitySourceUntouched ==
    (ExeDone /\ exe.fn = "_apply_enhancements")
    => /\ exe.heap[exe.src] = exe.src_px
       /\ exe.plan = {} => OutPixels = exe.src_px

\* an empty plan was applied and the result is a copy, not the source object
C18_Witness ==
    /\ ExeDone
    /\ exe.fn = "_apply_enhancements"
    /\ exe.plan = {}
    /\ exe.out # exe.src
    /\ OutPixels = exe.src_px

PlcDone == plc.pc = "done"

\* C19: for every image size w x h >= 1 x 1 and every position mode the
\* returned rectangle lies within the image: 0 <= x1 <= x2 <= w and
\* 0 <= y1 <= y2 <= h.
C19_RectangleWithinImage ==
    PlcDone =>
       LET r == plc.watermark_pos
       IN /\ 0 <= r[1] /\ r[1] <= r[3] /\ r[3] <= plc.w
          /\ 0 <= r[2] /\ r[2] <= r[4] /\ r[4] <= plc.h

\* every one of the five zones lies within a w x h image
AllZonesInImage(w, h) ==
    \A k \in 1..5 :
       LET z == zones(w, h)[k]
       IN 0 <= z[1] /\ z[3] <= w /\ 0 <= z[2] /\ z[4] <= h

\* C20: smart_adaptive returns a zone whose variance is minimal over all five
\* candidate zones, the earliest such zone in the order bottom-right,
\* bottom-left, top-right, top-left, center (stated for the images that
\* contain all five zones).
C20_SmartAdaptiveMinVariance ==
    (PlcDone /\ plc.position = "smart_adaptive" /\ AllZonesInImage(plc.w, plc.h))
    => \E k \in 1..5 :
          /\ plc.watermark_pos = zones(plc.w, plc.h)[k]
          /\ \A j \in 1..5 : plc.var[k] <= plc.var[j]
          /\ \A j \in 1..(k - 1) : plc.var[j] > plc.var[k]

\* C21: positions 'content_aware' and 'edge_detection' do not depend on the
\* pixels: in every entry point 'content_aware' yields the bottom-right
\* rectangle of the image size and 'edge_detection' the top-left rectangle.
C21_ContentAwareEdgeBasedFixed ==
    PlcDone =>
       /\ plc.position = "content_aware"
             => plc.watermark_pos = << plc.w - 180, plc.h - 80, plc.w - 20, plc.h - 20 >>
       /\ plc.position = "edge_detection"
             => plc.watermark_pos = << 20, 20, 200, 80 >>

StyDone == sty.pc = "done"

\* C22: for a non-empty text, size 'small' gives 14, 'medium' 20, 'large' 28
\* and 'adaptive' a size between 12 and 24, for every rectangle (narrower than
\* the text, empty or inverted ones included), and no error is raised.
C22_FontSizeResolution ==
    (StyDone /\ sty.text_len >= 1)
    => /\ ~sty.raised
       /\ sty.size = "small" => sty.font_size = 14
       /\ sty.size = "medium" => sty.font_size = 20
       /\ sty.size = "large" => sty.font_size = 28
       /\ sty.size = "adaptive" => (12 <= sty.font_size /\ sty.font_size <= 24)

\* adaptive sizing was computed for a one-character text on an inverted
\* rectangle and was raised to the minimum
C22_Witness ==
    /\ StyDone
    /\ sty.fn = "simple_server"
    /\ sty.size = "adaptive"
    /\ sty.text_len = 1
    /\ sty.rect[3] < sty.rect[1]
    /\ sty.font_size = 12

\* C23: the text origin keeps the measured text inside the target rectangle
\* on both axes, for every measured text size (stated for the rectangles of
\* the placement functions, 180 wide and 60 high, and a non-empty text).
C23_TextInsideRectangle ==
    (StyDone /\ sty.text_len >= 1
       /\ sty.rect[3] - sty.rect[1] = 180 /\ sty.rect[4] - sty.rect[2] = 60)
    => /\ sty.rect[1] <= sty.text_x
       /\ sty.text_x + sty.text_width <= sty.rect[3]
       /\ sty.rect[2] <= sty.text_y
       /\ sty.text_y + sty.text_height <= sty.rect[4]

\* the radius of the ring a draw belongs to
Radius(d) == Max(Max(d.dx, -d.dx), Max(d.dy, -d.dy))

NeonDone == StyDone /\ sty.fn = "simple_server" /\ sty.style = "neon_glow" /\ ~sty.raised

\* the glow passes are the draws before the last, in rings of radius 4, 3,
\* 2, 1 in this order, and the last draw is the text at the origin in white
\* at the full alpha
NeonShape ==
    /\ Len(sty.draws) >= 2
    /\ { Radius(sty.draws[i]) : i \in 1..(Len(sty.draws) - 1) } = 1..4
    /\ \A i, j \in 1..(Len(sty.draws) - 1) :
          i < j => Radius(sty.draws[i]) >= Radius(sty.draws[j])
    /\ sty.draws[Len(sty.draws)] = Draw(0, 0, White, sty.alpha)

\* C24 as stated: the Neon style draws its rings in order of decreasing
\* radius 4, 3, 2, 1 with the alpha of each pass lower than or equal to the
\* alpha of the pass before it, and ends with the white main text at the
\* full alpha.
C24_NeonAlphaDecreases ==
    NeonDone
    => /\ NeonShape
       /\ \A i, j \in 1..(Len(sty.draws) - 1) :
             i < j => sty.draws[i].alpha >= sty.draws[j].alpha

\* C24 amended: the Neon style draws its rings in order of decreasing radius
\* 4, 3, 2, 1, a ring of radius r at alpha // (r + 1), so that the alpha of
\* each pass is higher than or equal to the alpha of the pass before it, and
\* ends with the white main text at the full alpha.
C24_NeonAlphaIncreases ==
    NeonDone
    => /\ NeonShape
       /\ \A i \in 1..(Len(sty.draws) - 1) :
             sty.draws[i].alpha = sty.alpha \div (Radius(sty.draws[i]) + 1)
       /\ \A i, j \in 1..(Len(sty.draws) - 1) :
             i < j => sty.draws[i].alpha <= sty.draws[j].alpha

\* a Neon rendering at opacity 0.8 whose innermost ring is brighter than its
\* outermost ring
C24_Witness ==
    /\ NeonDone
    /\ sty.alpha = 204
    /\ Len(sty.draws) = 33
    /\ sty.draws[1].alpha < sty.draws[32].alpha

WmkDone == wmk.pc = "done"

\* C25: every image handed to an enhancement operation is RGB whatever the
\* decoded mode, every image encoded for output is RGB, and on the watermark
\* paths an RGBA image made by the path exists only from the overlay to the
\* composite.
C25_ChannelCount ==
    WmkDone =>
       \A k \in 1..Len(wmk.trace) :
          /\ wmk.trace[k].stage \in {"enhancement_op", "encoded", "collapsed"}
                => wmk.trace[k].mode = "RGB"
          /\ (wmk.path = "watermark" /\ wmk.trace[k].mode = "RGBA")
                => wmk.trace[k].stage \in {"decoded", "render", "overlay", "composite"}

\* C26: when drawing or compositing fails for a decoded image, the watermark
\* step of add_watermark_async yields the image it was given and the call
\* does not raise; when the placement analysis fails the analysis answers
\* 'bottom_right', which places the text unless the config names a position,
\* and the call does not raise.
C26_RenderFailureAbsorbed ==
    (WmkDone /\ wmk.fn = "add_watermark_async")
    => /\ wmk.render_fails => (wmk.step_px = "source" /\ ~wmk.raised
                                 /\ wmk.step_mode = Mode(wmk.img))
       /\ wmk.analysis_fails
             => /\ wmk.placement_analysis.optimal_position = "bottom_right"
                /\ wmk.config_position = "absent"
                      => wmk.text_position = "bottom_right"
                /\ (~wmk.render_fails => wmk.step_px = "watermarked")

\* both the placement analysis and the rendering failed and the call returned
\* the downloaded image
C26_Witness ==
    /\ WmkDone
    /\ wmk.fn = "add_watermark_async"
    /\ wmk.analysis_fails
    /\ wmk.render_fails
    /\ ~wmk.raised
    /\ wmk.step_px = "source"

CrtDone(fn) == crt.pc = "done" /\ crt.fn = fn

\* C27: a company id absent from COMPANY_SETTINGS makes CertificateGenerator
\* raise ValueError before any file is opened and the generate-certificate
\* endpoint answer 400; a missing template or font makes it answer 404; no
\* temporary file is created in either case.
C27_CertificateFailuresByKind ==
    CrtDone("create_certificate")
    => /\ crt.company_id \notin COMPANY_SETTINGS
             => /\ crt.init_raised = "ValueError"
                /\ crt.opened = << >>
                /\ crt.status = 400
                /\ ~crt.tmp_created
       /\ (crt.company_id \in COMPANY_SETTINGS
             /\ ~(crt.template_exists /\ crt.fonts_exist))
             => /\ crt.status = 404
                /\ ~crt.tmp_created

\* a request for a company that is not configured was answered 400
C27_Witness ==
    /\ CrtDone("create_certificate")
    /\ crt.company_id = "nonexistent_company"
    /\ crt.status = 400
    /\ ~crt.tmp_created

\* C30: for every (template_type, number of images) _load_template accepts,
\* every image gets a position and is pasted; every other pair is rejected
\* with ValueError before any image is fetched.
C30_FlyerPositionsConsistent ==
    CrtDone("generate")
    => /\ crt.accepted => (crt.raised = "none" /\ crt.pasted = crt.image_count)
       /\ ~crt.accepted => (crt.raised = "ValueError" /\ crt.fetched = 0)

WorkflowNodes == {"image_analyzer", "enhancement_agent", "watermark_agent",
                  "quality_checker", "finalizer"}

\* the depth of a node of the workflow graph
NodeRank(n) == CASE n = "image_analyzer" -> 0
                 [] n \in {"enhancement_agent", "watermark_agent"} -> 1
                 [] n = "quality_checker" -> 2
                 [] n = "finalizer" -> 3
                 [] OTHER -> 4

\* C28: a run executes at most four agents, the graph has no cycle (every
\* edge taken leads to a node further from the entry point), and when every
\* agent execution ends, in success or in failure (the advisory call of the
\* enhancement agent answers or raises), every run reaches END.
C28_RunTerminates ==
    /\ [](Len(agents_run) <= 4)
    /\ [][ (node \in WorkflowNodes /\ node' # node)
             => (node' \in WorkflowNodes \cup {"END"}
                   /\ NodeRank(node') > NodeRank(node)) ]_vars
    /\ WF_vars(generate_content_returns)
          => ((node \in WorkflowNodes) ~> (node = "END"))

\* a run with a failing processor reached END after four agent executions
C28_Witness ==
    /\ node = "END"
    /\ Len(agents_run) = 4
    /\ failed = "enhancement_agent"

\* C29: within a run an error_message once set is not cleared by a later
\* agent, and AIOrchestrator.enhance_photo_async raises exactly when the
\* final state carries an error_message: it returns result_data only for
\* runs in which no agent failed.
C29_ErrorMessageDecidesOutcome ==
    [][ /\ (state.error_message # "" /\ node \in WorkflowNodes)
            => state'.error_message # ""
        /\ (entry' = "app_enhance" /\ node' = "done")
            => /\ (outcome'.kind = "raised") <=> (state'.error_message # "")
               /\ (outcome'.kind = "returned") <=> (failed' = "none") ]_vars

\* enhance_photo_async raised for a run that ended with processing_status
\* 'completed'
C29_Witness ==
    /\ entry = "app_enhance"
    /\ node = "done"
    /\ outcome.kind = "raised"
    /\ state.processing_status = "completed"
    /\ failed = "enhancement_agent"

====
